---- MODULE Spec2Model ----
(***************************************************************************)
(* Red-black tree of the repository (class RedBlackTree): insert, delete,  *)
(* fixInsert, fixDelete, rotateLeft, rotateRight, findNode, findMin,       *)
(* deleteNode.  Node objects live in an arena of cells; a cell             *)
(* holds the fields value, color, left, right, parent of one Node.  The    *)
(* two repair loops are modelled one iteration per step.                   *)
(***************************************************************************)
EXTENDS Integers, FiniteSets, Sequences, TLC

\* ---------------------------------------------------------------- bounds
MaxNodes == 6       \* insert is disabled once the tree holds this many nodes
NumKeys == 2        \* keys passed to insert and delete are 1..NumKeys
RoundTripKeys == 5  \* the round trip inserts and deletes subsets of 1..RoundTripKeys
InsertNodes == 10   \* a run of insert calls only stops at this many nodes
NumLoaderKeys == 2  \* keys passed to load and loadMany are 1..NumLoaderKeys
MaxLoads == 3       \* load and loadMany are called this many times at most
MaxClears == 1      \* clear is called this many times at most

\* ------------------------------------------------------------ data model
NIL == 0
RED == "RED"
BLACK == "BLACK"

\* The usage example at the end of the file: the values it inserts, in
\* order, and the values it then deletes, in order.
DemoValues == <<10, 5, 15, 3, 7, 12, 17, 1, 4, 6, 8>>
DemoDeletes == <<3, 1, 5>>

\* Cells for Node objects: enough for the bounded runs and for the example.
Cells ==
    LET sizes == {MaxNodes, InsertNodes, RoundTripKeys, Len(DemoValues)}
    IN  CHOOSE m \in sizes : \A k \in sizes : m >= k

Ids == 1..Cells
Keys == 1..NumKeys
TripKeys == 1..RoundTripKeys
DemoKeys == {DemoValues[i] : i \in 1..Len(DemoValues)}

VARIABLES
    tree,       \* the RedBlackTree object and its Node objects
    pc,         \* "idle", "fixInsert", "fixDelete", "fixDeleteDone"
    node,       \* parameter `node` of the running fixInsert / fixDelete
    current,    \* local `current` of the running fixDelete
    pre,        \* the tree as it was when the running/last call started
    call,       \* the running/last public call: [op, key]
    ret,        \* what the last call returned ("none" while running / void)
    spliced,    \* the node deleteNode unlinked in the running/last delete
    lastCase,   \* the case the last loop iteration of the call applied
    lastAt,     \* the node that iteration started at (node / current)
    trip,       \* round trip only: the keys inserted and the keys deleted so far
    demo,       \* usage example only: values inserted so far, values deleted
    loader      \* the DataLoader object, its timers, batches and promises

vars == <<tree, pc, node, current, pre, call, ret, spliced, lastCase, lastAt, trip, demo, loader>>

\* A cell that holds no Node.
FreeKey == 0

EmptyTree ==
    [ root   |-> NIL,
      nodes  |-> {},
      key    |-> [i \in Ids |-> FreeKey],
      color  |-> [i \in Ids |-> RED],
      left   |-> [i \in Ids |-> NIL],
      right  |-> [i \in Ids |-> NIL],
      parent |-> [i \in Ids |-> NIL] ]

NoSplice == [id |-> NIL, color |-> BLACK, child |-> NIL, parent |-> NIL, target |-> NIL]
NoCall == [op |-> "none", key |-> 0]
NoTrip == [ins |-> {}, del |-> {}]
NoDemo == [ins |-> 0, del |-> <<>>]

\* ------------------------------------------------------------- new Node
NewId(t) == CHOOSE i \in Ids \ t.nodes : \A j \in Ids \ t.nodes : i <= j

\* A Node constructed BLACK.
NewNodeBlack(t, v) ==
    LET n == NewId(t) IN
    [t EXCEPT !.nodes = @ \cup {n}, !.key[n] = v, !.color[n] = BLACK,
              !.left[n] = NIL, !.right[n] = NIL, !.parent[n] = NIL]

\* new Node(value): color RED, left/right/parent null.
NewNode(t, v) ==
    LET n == NewId(t) IN
    [t EXCEPT !.nodes = @ \cup {n}, !.key[n] = v, !.color[n] = RED,
              !.left[n] = NIL, !.right[n] = NIL, !.parent[n] = NIL]

\* The cell of an unlinked Node no variable refers to any more.
Release(t, n) ==
    [t EXCEPT !.nodes = @ \ {n}, !.key[n] = FreeKey, !.color[n] = RED,
              !.left[n] = NIL, !.right[n] = NIL, !.parent[n] = NIL]

\* ------------------------------------------------------- object identity
\* A Node has no identity beyond the references the tree holds to it.  When a
\* public call returns, the Nodes reachable from root are renumbered in
\* pre-order (root = 1), so that two heaps that differ only in which cell
\* holds which Node are the same state.  A heap whose links do not form a tree
\* over its Nodes is left as it is.
RECURSIVE PreOrder(_, _, _)
PreOrder(t, x, fuel) ==
    IF x = NIL \/ fuel = 0 THEN <<>>
    ELSE <<x>> \o PreOrder(t, t.left[x], fuel - 1) \o PreOrder(t, t.right[x], fuel - 1)

Renumber(t) ==
    LET seq    == PreOrder(t, t.root, Cells)
        n      == Len(seq)
        seen   == {seq[i] : i \in 1..n}
        closed == \A x \in seen : t.parent[x] \in seen \cup {NIL}
        ok     == n = Cardinality(t.nodes) /\ seen = t.nodes /\ closed
        idx(x) == IF x = NIL THEN NIL ELSE CHOOSE i \in 1..n : seq[i] = x
    IN  IF ~ok THEN t
        ELSE [ root   |-> idx(t.root),
               nodes  |-> 1..n,
               key    |-> [i \in Ids |-> IF i <= n THEN t.key[seq[i]] ELSE FreeKey],
               color  |-> [i \in Ids |-> IF i <= n THEN t.color[seq[i]] ELSE RED],
               left   |-> [i \in Ids |-> IF i <= n THEN idx(t.left[seq[i]]) ELSE NIL],
               right  |-> [i \in Ids |-> IF i <= n THEN idx(t.right[seq[i]]) ELSE NIL],
               parent |-> [i \in Ids |-> IF i <= n THEN idx(t.parent[seq[i]]) ELSE NIL] ]

\* ------------------------------------------------------------- rotations
\* rotateLeft without `rightChild.left.parent = node`.
RotateLeftInnerParentKept(t, x) ==
    LET y  == t.right[x]
        yl == t.left[y]
        p  == t.parent[x]
        t1 == [t EXCEPT !.right[x] = yl]
        t3 == [t1 EXCEPT !.parent[y] = p]
        t4 == IF p = NIL THEN [t3 EXCEPT !.root = y]
              ELSE IF x = t3.left[p] THEN [t3 EXCEPT !.left[p] = y]
              ELSE [t3 EXCEPT !.right[p] = y]
    IN  [t4 EXCEPT !.left[y] = x, !.parent[x] = y]

RotateLeft(t, x) ==
    LET y  == t.right[x]
        yl == t.left[y]
        p  == t.parent[x]
        t1 == [t EXCEPT !.right[x] = yl]
        t2 == IF yl # NIL THEN [t1 EXCEPT !.parent[yl] = x] ELSE t1
        t3 == [t2 EXCEPT !.parent[y] = p]
        t4 == IF p = NIL THEN [t3 EXCEPT !.root = y]
              ELSE IF x = t3.left[p] THEN [t3 EXCEPT !.left[p] = y]
              ELSE [t3 EXCEPT !.right[p] = y]
    IN  [t4 EXCEPT !.left[y] = x, !.parent[x] = y]

\* rotateRight that always writes the parent's left slot.
RotateRightIntoLeftSlot(t, x) ==
    LET y  == t.left[x]
        yr == t.right[y]
        p  == t.parent[x]
        t1 == [t EXCEPT !.left[x] = yr]
        t2 == IF yr # NIL THEN [t1 EXCEPT !.parent[yr] = x] ELSE t1
        t3 == [t2 EXCEPT !.parent[y] = p]
        t4 == IF p = NIL THEN [t3 EXCEPT !.root = y]
              ELSE [t3 EXCEPT !.left[p] = y]
    IN  [t4 EXCEPT !.right[y] = x, !.parent[x] = y]

RotateRight(t, x) ==
    LET y  == t.left[x]
        yr == t.right[y]
        p  == t.parent[x]
        t1 == [t EXCEPT !.left[x] = yr]
        t2 == IF yr # NIL THEN [t1 EXCEPT !.parent[yr] = x] ELSE t1
        t3 == [t2 EXCEPT !.parent[y] = p]
        t4 == IF p = NIL THEN [t3 EXCEPT !.root = y]
              ELSE IF x = t3.right[p] THEN [t3 EXCEPT !.right[p] = y]
              ELSE [t3 EXCEPT !.left[p] = y]
    IN  [t4 EXCEPT !.right[y] = x, !.parent[x] = y]

\* ---------------------------------------------------------------- insert
\* Mutant: the descent goes right on a smaller key and left otherwise.
RECURSIVE InsertParentFlipped(_, _, _)
InsertParentFlipped(t, cur, v) ==
    LET nxt == IF v < t.key[cur] THEN t.right[cur] ELSE t.left[cur]
    IN  IF nxt = NIL THEN cur ELSE InsertParentFlipped(t, nxt, v)

\* The descent of insert: the last node visited before current becomes null.
RECURSIVE InsertParent(_, _, _)
InsertParent(t, cur, v) ==
    LET nxt == IF v < t.key[cur] THEN t.left[cur] ELSE t.right[cur]
    IN  IF nxt = NIL THEN cur ELSE InsertParent(t, nxt, v)

\* insert on the empty tree: a BLACK root.
InsertEmpty(t, v) ==
    LET n == NewId(t) IN
    [NewNode(t, v) EXCEPT !.root = n, !.color[n] = BLACK]

\* Mutant: an equal key is attached on the left of the last visited node.
InsertAttachEqualLeft(t, v) ==
    LET n  == NewId(t)
        p  == InsertParent(t, t.root, v)
        t1 == [NewNode(t, v) EXCEPT !.parent[n] = p]
    IN  IF v <= t1.key[p] THEN [t1 EXCEPT !.left[p] = n]
        ELSE [t1 EXCEPT !.right[p] = n]

\* insert on a non-empty tree, up to the call of fixInsert.
InsertAttach(t, v) ==
    LET n  == NewId(t)
        p  == InsertParent(t, t.root, v)
        t1 == [NewNode(t, v) EXCEPT !.parent[n] = p]
    IN  IF v < t1.key[p] THEN [t1 EXCEPT !.left[p] = n]
        ELSE [t1 EXCEPT !.right[p] = n]

\* node.parent.parent?.left and ?.right: undefined when there is no grandparent.
OptLeft(t, x) == IF x = NIL THEN NIL ELSE t.left[x]
OptRight(t, x) == IF x = NIL THEN NIL ELSE t.right[x]

\* A loop whose body never runs.
FixInsertCondNever(t, n) == FALSE

\* The condition of fixInsert's while loop.
FixInsertCond(t, n) == t.parent[n] # NIL /\ t.color[t.parent[n]] = RED

\* Mutant: the grandparent is not coloured RED.
InsertRecolorKeepsGrandparent(t, n, uncle) ==
    LET p == t.parent[n]
    IN  [t EXCEPT !.color[p] = BLACK, !.color[uncle] = BLACK]

\* The recolouring without `uncle.color = BLACK`.
InsertRecolorUncleKept(t, n, uncle) ==
    LET p == t.parent[n]
        g == t.parent[p]
    IN  [t EXCEPT !.color[p] = BLACK, !.color[g] = RED]

\* Recolouring of parent, uncle and grandparent (uncle RED).
InsertRecolor(t, n, uncle) ==
    LET p == t.parent[n]
        g == t.parent[p]
    IN  [t EXCEPT !.color[p] = BLACK, !.color[uncle] = BLACK, !.color[g] = RED]

\* The line-shape recolouring without `node.parent.color = BLACK`.
InsertLineRecolorParentKept(t, n) ==
    [t EXCEPT !.color[t.parent[t.parent[n]]] = RED]

\* node.parent.color = BLACK; node.parent.parent.color = RED
InsertLineRecolor(t, n) ==
    LET t2 == [t EXCEPT !.color[t.parent[n]] = BLACK]
    IN  [t2 EXCEPT !.color[t2.parent[t2.parent[n]]] = RED]

\* One iteration of fixInsert's loop: the tree and node after it.
FixInsertBody(t, n) ==
    LET p == t.parent[n]
        g == t.parent[p]
    IN  IF p = OptLeft(t, g)
        THEN LET uncle == OptRight(t, g) IN
             IF uncle # NIL /\ t.color[uncle] = RED
             THEN [t |-> InsertRecolor(t, n, uncle), node |-> g, case |-> "A"]
             ELSE LET tri == (n = t.right[p])
                      n1  == IF tri THEN p ELSE n
                      t1  == IF tri THEN RotateLeft(t, n1) ELSE t
                      t3  == InsertLineRecolor(t1, n1)
                  IN  [t |-> RotateRight(t3, t3.parent[t3.parent[n1]]),
                       node |-> n1, case |-> IF tri THEN "BC" ELSE "C"]
        ELSE LET uncle == OptLeft(t, g) IN
             IF uncle # NIL /\ t.color[uncle] = RED
             THEN [t |-> InsertRecolor(t, n, uncle), node |-> g, case |-> "A"]
             ELSE LET tri == (n = t.left[p])
                      n1  == IF tri THEN p ELSE n
                      t1  == IF tri THEN RotateRight(t, n1) ELSE t
                      t3  == InsertLineRecolor(t1, n1)
                  IN  [t |-> RotateLeft(t3, t3.parent[t3.parent[n1]]),
                       node |-> n1, case |-> IF tri THEN "BC" ELSE "C"]

\* Mutant: the root is not recoloured after the loop.
BlackenRootOmitted(t) == t

\* this.root.color = BLACK after either loop.
BlackenRoot(t) == IF t.root = NIL THEN t ELSE [t EXCEPT !.color[t.root] = BLACK]

\* ---------------------------------------------------------------- delete
\* Mutant: a search that runs off the tree returns the last node it visited.
RECURSIVE FindNodeNearest(_, _, _)
FindNodeNearest(t, cur, v) ==
    IF cur = NIL THEN NIL
    ELSE IF v = t.key[cur] THEN cur
    ELSE LET nxt == IF v < t.key[cur] THEN t.left[cur] ELSE t.right[cur]
         IN  IF nxt = NIL THEN cur ELSE FindNodeNearest(t, nxt, v)

\* findNode: the first node on the search path that holds v, or null.
RECURSIVE FindNode(_, _, _)
FindNode(t, cur, v) ==
    IF cur = NIL THEN NIL
    ELSE IF v = t.key[cur] THEN cur
    ELSE IF v < t.key[cur] THEN FindNode(t, t.left[cur], v)
    ELSE FindNode(t, t.right[cur], v)

\* findMin: the leftmost node of the subtree rooted at n.
RECURSIVE FindMin(_, _)
\* findMin that does not descend.
FindMinShallow(t, n) == n

FindMin(t, n) == IF t.left[n] # NIL THEN FindMin(t, t.left[n]) ELSE n

\* const child = node.left || node.right
DeleteChild(t, n) == IF t.left[n] # NIL THEN t.left[n] ELSE t.right[n]

\* deleteNode: the tree after the splice (it returns DeleteChild).
\* deleteNode without `this.root = child`.
DeleteNodeRootKept(t, n) ==
    LET child == DeleteChild(t, n)
        p     == t.parent[n]
    IN  IF p = NIL
        THEN IF child # NIL THEN [t EXCEPT !.parent[child] = NIL] ELSE t
        ELSE LET t1 == IF n = t.left[p] THEN [t EXCEPT !.left[p] = child]
                       ELSE [t EXCEPT !.right[p] = child]
             IN  IF child # NIL THEN [t1 EXCEPT !.parent[child] = p] ELSE t1

DeleteNode(t, n) ==
    LET child == DeleteChild(t, n)
        p     == t.parent[n]
    IN  IF p = NIL
        THEN LET t1 == [t EXCEPT !.root = child]
             IN  IF child # NIL THEN [t1 EXCEPT !.parent[child] = NIL] ELSE t1
        ELSE LET t1 == IF n = t.left[p] THEN [t EXCEPT !.left[p] = child]
                       ELSE [t EXCEPT !.right[p] = child]
             IN  IF child # NIL THEN [t1 EXCEPT !.parent[child] = p] ELSE t1

\* Mutant: the target is spliced out even when it has two children.
SpliceVictimTarget(t, n) == n

\* The node delete hands to deleteNode: the in-order successor of a target
\* with two children, else the target itself.
SpliceVictim(t, n) ==
    IF t.left[n] # NIL /\ t.right[n] # NIL THEN FindMin(t, t.right[n]) ELSE n

\* Mutant: the successor's key is not copied into the target.
CopyKeyOmitted(t, n, victim) == t

\* node.value = successor.value (a target with two children only).
CopyKey(t, n, victim) == IF victim # n THEN [t EXCEPT !.key[n] = t.key[victim]] ELSE t

\* The argument delete passes to fixDelete, NIL when it does not call it:
\* nodeToFixParent when nodeToFix is null, else nodeToFix.
FixDeleteStart(fix, fixParent) ==
    IF fix = NIL /\ fixParent # NIL THEN fixParent
    ELSE IF fix # NIL THEN fix
    ELSE NIL

\* siblingLeft?.color || Color.BLACK
ColorOrBlack(t, x) == IF x = NIL THEN BLACK ELSE t.color[x]

\* const sibling = isLeftChild ? parent.right : parent.left
Sibling(t, cur) ==
    LET p == t.parent[cur]
    IN  IF cur = t.left[p] THEN t.right[p] ELSE t.left[p]

\* Case 1 (sibling RED): recolour, rotate the parent towards current.
DelCase1(t, p, sib, isLeft) ==
    LET t1 == [t EXCEPT !.color[sib] = BLACK, !.color[p] = RED]
    IN  IF isLeft THEN RotateLeft(t1, p) ELSE RotateRight(t1, p)

\* Where the loop continues after case 1: current = node.
DelCase1Next(cur, n) == n

\* Mutant: current stays where it is.
MoveUpStuck(t, cur) == cur

\* current = parent (absent sibling, and case 2).
MoveUp(t, cur) == t.parent[cur]

\* Case 2 (sibling and its children BLACK): sibling RED.
DelCase2(t, sib) == [t EXCEPT !.color[sib] = RED]

\* Case 3a without its rotation.
DelCase3NoRotation(t, sib, isLeft) ==
    LET near == IF isLeft THEN t.left[sib] ELSE t.right[sib]
    IN  [t EXCEPT !.color[near] = BLACK, !.color[sib] = RED]

\* Case 3a (near child RED, far child BLACK): recolour, rotate the sibling.
DelCase3(t, sib, isLeft) ==
    LET near == IF isLeft THEN t.left[sib] ELSE t.right[sib]
        t1   == [t EXCEPT !.color[near] = BLACK, !.color[sib] = RED]
    IN  IF isLeft THEN RotateRight(t1, sib) ELSE RotateLeft(t1, sib)

\* Case 3b (far child RED): recolour, rotate the parent, leave the loop.
DelCase4(t, p, sib, isLeft) ==
    LET far == IF isLeft THEN t.right[sib] ELSE t.left[sib]
        t1  == [t EXCEPT !.color[sib] = t.color[p]]
        t2  == [t1 EXCEPT !.color[p] = BLACK, !.color[far] = BLACK]
    IN  IF isLeft THEN RotateLeft(t2, p) ELSE RotateRight(t2, p)

\* One iteration of fixDelete's loop with current not the root: the tree,
\* current, and whether the iteration left the loop by break.
\* Case 3b taken only when the near child is BLACK.
IsCase4NearBlack(near, far) == far = RED /\ near = BLACK

\* else if (siblingRightColor === Color.RED), mirrored: the far child is RED.
IsCase4(near, far) == far = RED

FixDeleteBody(t, cur, n) ==
    LET p      == t.parent[cur]
        isLeft == (cur = t.left[p])
        sib    == IF isLeft THEN t.right[p] ELSE t.left[p]
    IN  IF sib = NIL
        THEN [t |-> t, current |-> MoveUp(t, cur), brk |-> FALSE, case |-> "nosib"]
        ELSE IF t.color[sib] = RED
        THEN [t |-> DelCase1(t, p, sib, isLeft), current |-> DelCase1Next(cur, n),
              brk |-> FALSE, case |-> "1"]
        ELSE LET slc  == ColorOrBlack(t, t.left[sib])
                 src  == ColorOrBlack(t, t.right[sib])
                 near == IF isLeft THEN slc ELSE src
                 far  == IF isLeft THEN src ELSE slc
             IN  IF slc = BLACK /\ src = BLACK
                 THEN [t |-> DelCase2(t, sib), current |-> MoveUp(t, cur),
                       brk |-> FALSE, case |-> "2"]
                 ELSE IF near = RED /\ far = BLACK
                 THEN [t |-> DelCase3(t, sib, isLeft), current |-> cur,
                       brk |-> FALSE, case |-> "3"]
                 ELSE IF IsCase4(near, far)
                 THEN [t |-> DelCase4(t, p, sib, isLeft), current |-> cur,
                       brk |-> TRUE, case |-> "4"]
                 ELSE [t |-> t, current |-> cur, brk |-> FALSE, case |-> "fall"]

\* ------------------------------------------------------------ DataLoader
LoaderKeys == 1..NumLoaderKeys

\* The keys the data store holds; the batch function answers null for the
\* others.
KnownKeys == LoaderKeys \ {NumLoaderKeys}

NullValue == 0

\* The item stored under key k.
Item(k) == NumLoaderKeys + k

\* The arguments loadMany is called with.
KeyLists ==
    {<<>>} \cup {<<k>> : k \in LoaderKeys}
           \cup {<<k1, k2>> : k1 \in LoaderKeys, k2 \in LoaderKeys}

\* new DataLoader(batchFn, getKey).  cacheKeys are the keys the Map holds
\* (a key may be held with the value null); immediates counts the pending
\* setImmediate callbacks, inflight holds the key lists of the batchFn calls
\* that have not resolved, promises the promises load and loadMany returned,
\* fetched how often each key went to batchFn since the last clear().
NewLoader ==
    [ queue          |-> <<>>,
      cacheKeys      |-> {},
      cache          |-> [k \in LoaderKeys |-> NullValue],
      batchScheduled |-> FALSE,
      immediates     |-> 0,
      inflight       |-> <<>>,
      promises       |-> <<>>,
      fetched        |-> [k \in LoaderKeys |-> 0],
      clears         |-> 0 ]

\* ids.map((id) => this.products.get(id) || null)
BatchFn(keys) ==
    [i \in 1..Len(keys) |-> IF keys[i] \in KnownKeys THEN Item(keys[i]) ELSE NullValue]

\* [...new Set(this.queue)]: the first occurrence of each key, in order.
RECURSIVE Dedup(_)
Dedup(q) ==
    IF q = <<>> THEN <<>>
    ELSE LET init == Dedup(SubSeq(q, 1, Len(q) - 1))
             last == q[Len(q)]
         IN  IF \E i \in 1..Len(init) : init[i] = last THEN init
             ELSE Append(init, last)

\* scheduleBatch()
ScheduleBatch(l) ==
    IF ~l.batchScheduled
    THEN [l EXCEPT !.batchScheduled = TRUE, !.immediates = @ + 1]
    ELSE l

\* keys.forEach((k) => { if (!this.cache.has(k)) this.queue.push(k) })
RECURSIVE PushUncached(_, _)
PushUncached(l, keys) ==
    IF keys = <<>> THEN l
    ELSE LET l1 == IF keys[1] \in l.cacheKeys THEN l
                   ELSE [l EXCEPT !.queue = Append(@, keys[1])]
         IN  PushUncached(l1, Tail(keys))

\* keys.forEach((key, idx) => this.cache.set(key, results[idx] or null))
RECURSIVE CacheSetAll(_, _, _)
CacheSetAll(l, keys, results) ==
    IF keys = <<>> THEN l
    ELSE CacheSetAll([l EXCEPT !.cacheKeys = @ \cup {keys[1]},
                               !.cache[keys[1]] = results[1]],
                     Tail(keys), Tail(results))

\* A promise returned by load or loadMany.
Pending(keys, many) == [keys |-> keys, many |-> many, done |-> FALSE, result |-> <<>>]
Resolved(keys, many, result) ==
    [keys |-> keys, many |-> many, done |-> TRUE, result |-> result]

\* ------------------------------------------------------ dereferences
\* x.parent with x possibly absent.
OptParent(t, x) == IF x = NIL THEN NIL ELSE t.parent[x]

\* The references one iteration of fixInsert's loop dereferences besides node
\* itself: node.parent, node.parent.parent (the `!` reads), a RED uncle, and
\* the pivot child of each rotation it calls.  Without a grandparent the
\* iteration takes the mirror branch and reads node.parent.parent!.color.
FixInsertRefs(t, n) ==
    LET p == t.parent[n]
        g == OptParent(t, p)
    IN  IF g = NIL THEN {p, g}
        ELSE LET onLeft == (p = t.left[g])
                 uncle  == IF onLeft THEN t.right[g] ELSE t.left[g]
             IN  IF uncle # NIL /\ t.color[uncle] = RED THEN {p, uncle, g}
                 ELSE LET inner  == IF onLeft THEN t.right[p] ELSE t.left[p]
                          tri    == (n = inner)
                          n1     == IF tri THEN p ELSE n
                          t1     == IF ~tri THEN t
                                    ELSE IF onLeft THEN RotateLeft(t, n1)
                                    ELSE RotateRight(t, n1)
                          p1     == t1.parent[n1]
                          g1     == OptParent(t1, p1)
                          pivot2 == IF onLeft THEN OptLeft(t1, g1) ELSE OptRight(t1, g1)
                      IN  (IF tri THEN {inner} ELSE {}) \cup {p1, g1, pivot2}

\* The references one iteration of fixDelete's loop dereferences besides
\* current itself: current.parent, the sibling once it is known to be present,
\* the sibling child it recolours (the `!` reads) and the pivot child of the
\* rotation it calls.
FixDeleteRefs(t, cur) ==
    LET p == t.parent[cur]
    IN  IF p = NIL THEN {p}
        ELSE LET isLeft == (cur = t.left[p])
                 sib    == IF isLeft THEN t.right[p] ELSE t.left[p]
             IN  IF sib = NIL THEN {p}
                 ELSE IF t.color[sib] = RED THEN {p, sib}
                 ELSE LET nearN == IF isLeft THEN t.left[sib] ELSE t.right[sib]
                          farN  == IF isLeft THEN t.right[sib] ELSE t.left[sib]
                          near  == ColorOrBlack(t, nearN)
                          far   == ColorOrBlack(t, farN)
                      IN  IF near = BLACK /\ far = BLACK THEN {p, sib}
                          ELSE IF near = RED /\ far = BLACK THEN {p, sib, nearN}
                          ELSE {p, sib, farN}

\* --------------------------------------------------------------- actions
InitCall ==
    /\ tree = EmptyTree
    /\ pc = "idle"
    /\ node = NIL
    /\ current = NIL
    /\ pre = EmptyTree
    /\ call = NoCall
    /\ ret = "none"
    /\ spliced = NoSplice
    /\ lastCase = "none"
    /\ lastAt = NIL

Init == InitCall /\ trip = NoTrip /\ demo = NoDemo /\ loader = NewLoader

\* insert(value), up to its return or its call of fixInsert.
Insert(v) ==
    /\ pc = "idle"
    /\ pre' = tree
    /\ call' = [op |-> "insert", key |-> v]
    /\ ret' = "none"
    /\ spliced' = NoSplice
    /\ lastCase' = "none"
    /\ lastAt' = NIL
    /\ current' = NIL
    /\ IF tree.root = NIL
       THEN /\ tree' = Renumber(InsertEmpty(tree, v))
            /\ node' = NIL
            /\ pc' = "idle"
       ELSE /\ tree' = InsertAttach(tree, v)
            /\ node' = NewId(tree)
            /\ pc' = "fixInsert"

\* One iteration of fixInsert's loop.
FixInsertLoop ==
    /\ pc = "fixInsert"
    /\ FixInsertCond(tree, node)
    /\ LET r == FixInsertBody(tree, node) IN
        /\ tree' = r.t
        /\ node' = r.node
        /\ lastCase' = r.case
    /\ lastAt' = node
    /\ UNCHANGED <<pc, current, pre, call, ret, spliced, trip, demo, loader>>

\* fixInsert after its loop, and insert's return.
FixInsertExit ==
    /\ pc = "fixInsert"
    /\ ~FixInsertCond(tree, node)
    /\ tree' = Renumber(BlackenRoot(tree))
    /\ pc' = "idle"
    /\ node' = NIL
    /\ UNCHANGED <<current, pre, call, ret, spliced, lastCase, lastAt, trip, demo, loader>>

\* delete(value), up to its return or its call of fixDelete.
Delete(v) ==
    /\ pc = "idle"
    /\ pre' = tree
    /\ call' = [op |-> "delete", key |-> v]
    /\ lastCase' = "none"
    /\ lastAt' = NIL
    /\ LET n == FindNode(tree, tree.root, v) IN
       IF n = NIL
       THEN /\ ret' = "false"
            /\ spliced' = NoSplice
            /\ node' = NIL
            /\ current' = NIL
            /\ UNCHANGED <<tree, pc>>
       ELSE LET victim    == SpliceVictim(tree, n)
                t1        == CopyKey(tree, n, victim)
                fix       == DeleteChild(t1, victim)
                t2        == DeleteNode(t1, victim)
                fixParent == t2.parent[victim]
                start     == FixDeleteStart(fix, fixParent)
                t3        == Release(t2, victim)
            IN  /\ tree' = IF start # NIL THEN t3 ELSE Renumber(t3)
                /\ spliced' = [id |-> victim, color |-> tree.color[victim],
                               child |-> fix, parent |-> fixParent, target |-> n]
                /\ node' = start
                /\ current' = start
                /\ IF start # NIL
                   THEN pc' = "fixDelete" /\ ret' = "none"
                   ELSE pc' = "idle" /\ ret' = "true"

\* One iteration of fixDelete's loop that gets past `current === this.root`.
FixDeleteLoop ==
    /\ pc = "fixDelete"
    /\ current # NIL
    /\ current # tree.root
    /\ LET r == FixDeleteBody(tree, current, node) IN
        /\ tree' = r.t
        /\ current' = r.current
        /\ lastCase' = r.case
        /\ pc' = IF r.brk THEN "fixDeleteDone" ELSE "fixDelete"
    /\ lastAt' = current
    /\ UNCHANGED <<node, pre, call, ret, spliced, trip, demo, loader>>

\* fixDelete after its loop (left by the loop condition or by break), and
\* delete's return true.
FixDeleteExit ==
    /\ \/ pc = "fixDelete" /\ (current = NIL \/ current = tree.root)
       \/ pc = "fixDeleteDone"
    /\ tree' = Renumber(BlackenRoot(tree))
    /\ pc' = "idle"
    /\ ret' = "true"
    /\ node' = NIL
    /\ current' = NIL
    /\ UNCHANGED <<pre, call, spliced, lastCase, lastAt, trip, demo, loader>>

\* Any sequence of insert and delete calls, each run to completion.
Next ==
    \/ \E v \in Keys :
        Cardinality(tree.nodes) < MaxNodes /\ Insert(v) /\ UNCHANGED <<trip, demo, loader>>
    \/ FixInsertLoop
    \/ FixInsertExit
    \/ \E v \in Keys : Delete(v) /\ UNCHANGED <<trip, demo, loader>>
    \/ FixDeleteLoop
    \/ FixDeleteExit

Spec == Init /\ [][Next]_vars

\* A call that has started keeps running: the code is synchronous.
Running == FixInsertLoop \/ FixInsertExit \/ FixDeleteLoop \/ FixDeleteExit

LiveSpec == Init /\ [][Next]_vars /\ WF_vars(Running)

\* The round trip: distinct keys are inserted, then keys that were inserted
\* are deleted, each once.
TripInsert(v) ==
    /\ trip.del = {}
    /\ v \notin trip.ins
    /\ Insert(v)
    /\ trip' = [trip EXCEPT !.ins = @ \cup {v}]
    /\ UNCHANGED <<demo, loader>>

TripDelete(v) ==
    /\ v \in trip.ins \ trip.del
    /\ Delete(v)
    /\ trip' = [trip EXCEPT !.del = @ \cup {v}]
    /\ UNCHANGED <<demo, loader>>

TripNext ==
    \/ \E v \in TripKeys : TripInsert(v)
    \/ \E v \in TripKeys : TripDelete(v)
    \/ FixInsertLoop
    \/ FixInsertExit
    \/ FixDeleteLoop
    \/ FixDeleteExit

TripSpec == Init /\ [][TripNext]_vars

\* The usage example: it inserts DemoValues in order, then deletes.  Its own
\* run deletes DemoDeletes in order; here the delete loop may take any of the
\* inserted values, as many times as the example deletes.
DemoInsert ==
    /\ demo.ins < Len(DemoValues)
    /\ Insert(DemoValues[demo.ins + 1])
    /\ demo' = [demo EXCEPT !.ins = @ + 1]
    /\ UNCHANGED <<trip, loader>>

DemoDelete(v) ==
    /\ demo.ins = Len(DemoValues)
    /\ Len(demo.del) < Len(DemoDeletes)
    /\ Delete(v)
    /\ demo' = [demo EXCEPT !.del = Append(@, v)]
    /\ UNCHANGED <<trip, loader>>

DemoNext ==
    \/ DemoInsert
    \/ \E v \in DemoKeys : DemoDelete(v)
    \/ FixInsertLoop
    \/ FixInsertExit
    \/ FixDeleteLoop
    \/ FixDeleteExit

DemoSpec == Init /\ [][DemoNext]_vars

\* Any sequence of insert calls only, duplicates allowed.
InsertNext ==
    \/ \E v \in Keys :
        Cardinality(tree.nodes) < InsertNodes /\ Insert(v) /\ UNCHANGED <<trip, demo, loader>>
    \/ FixInsertLoop
    \/ FixInsertExit

InsertSpec == Init /\ [][InsertNext]_vars

\* ------------------------------------------------- DataLoader actions
treeVars == <<tree, pc, node, current, pre, call, ret, spliced, lastCase, lastAt, trip, demo>>

\* load(key), up to its return of a promise.
Load(k) ==
    /\ Len(loader.promises) < MaxLoads
    /\ IF k \in loader.cacheKeys
       THEN loader' = [loader EXCEPT
                !.promises = Append(@, Resolved(<<k>>, FALSE, <<loader.cache[k]>>))]
       ELSE loader' = [ScheduleBatch([loader EXCEPT !.queue = Append(@, k)]) EXCEPT
                !.promises = Append(@, Pending(<<k>>, FALSE))]
    /\ UNCHANGED treeVars

\* loadMany(keys), up to its return of a promise.
LoadMany(keys) ==
    /\ Len(loader.promises) < MaxLoads
    /\ loader' = [ScheduleBatch(PushUncached(loader, keys)) EXCEPT
            !.promises = Append(@, Pending(keys, TRUE))]
    /\ UNCHANGED treeVars

\* A setImmediate callback runs executeBatch up to `await this.batchFn(keys)`
\* or to its return on an empty queue.
ExecuteBatch ==
    /\ loader.immediates > 0
    /\ LET keys == Dedup(loader.queue)
           l1   == [loader EXCEPT !.queue = <<>>, !.batchScheduled = FALSE,
                                  !.immediates = @ - 1]
       IN  loader' =
             IF keys = <<>> THEN l1
             ELSE [l1 EXCEPT
                     !.inflight = Append(@, keys),
                     !.fetched = [k \in LoaderKeys |->
                                    IF \E i \in 1..Len(keys) : keys[i] = k
                                    THEN @[k] + 1 ELSE @[k]]]
    /\ UNCHANGED treeVars

\* The batch function's promise resolves and executeBatch fills the cache.
BatchReturn(j) ==
    /\ j \in 1..Len(loader.inflight)
    /\ LET keys == loader.inflight[j]
           rest == [i \in 1..(Len(loader.inflight) - 1) |->
                      IF i < j THEN loader.inflight[i] ELSE loader.inflight[i + 1]]
       IN  loader' = [CacheSetAll(loader, keys, BatchFn(keys)) EXCEPT !.inflight = rest]
    /\ UNCHANGED treeVars

\* A checkCache timer of load's promise finds the key in the cache.  (A
\* timer that does not find it re-arms itself and changes nothing.)
CheckCache(i) ==
    /\ i \in 1..Len(loader.promises)
    /\ LET pr == loader.promises[i]
       IN  /\ ~pr.done
           /\ ~pr.many
           /\ pr.keys[1] \in loader.cacheKeys
           /\ loader' = [loader EXCEPT !.promises[i] =
                            Resolved(pr.keys, FALSE, <<loader.cache[pr.keys[1]]>>)]
    /\ UNCHANGED treeVars

\* A checkAll timer of loadMany's promise finds every key in the cache.
CheckAll(i) ==
    /\ i \in 1..Len(loader.promises)
    /\ LET pr == loader.promises[i]
       IN  /\ ~pr.done
           /\ pr.many
           /\ \A n \in 1..Len(pr.keys) : pr.keys[n] \in loader.cacheKeys
           /\ loader' = [loader EXCEPT !.promises[i] =
                            Resolved(pr.keys, TRUE,
                                     [n \in 1..Len(pr.keys) |-> loader.cache[pr.keys[n]]])]
    /\ UNCHANGED treeVars

\* clear()
Clear ==
    /\ loader.clears < MaxClears
    /\ loader' = [loader EXCEPT
            !.cacheKeys = {},
            !.cache = [k \in LoaderKeys |-> NullValue],
            !.queue = <<>>,
            !.batchScheduled = FALSE,
            !.fetched = [k \in LoaderKeys |-> 0],
            !.clears = @ + 1]
    /\ UNCHANGED treeVars

\* Any interleaving of calls of load, loadMany and clear with the timers and
\* the batch function's promises.
LoaderNext ==
    \/ \E k \in LoaderKeys : Load(k)
    \/ \E keys \in KeyLists : LoadMany(keys)
    \/ ExecuteBatch
    \/ \E j \in 1..MaxLoads : BatchReturn(j)
    \/ \E i \in 1..MaxLoads : CheckCache(i)
    \/ \E i \in 1..MaxLoads : CheckAll(i)
    \/ Clear

LoaderSpec == Init /\ [][LoaderNext]_vars

\* Every timer fires and the batch function's promises resolve.
LoaderLiveSpec ==
    /\ Init /\ [][LoaderNext]_vars
    /\ WF_vars(ExecuteBatch)
    /\ \A j \in 1..MaxLoads : WF_vars(BatchReturn(j))
    /\ \A i \in 1..MaxLoads : WF_vars(CheckCache(i))
    /\ \A i \in 1..MaxLoads : WF_vars(CheckAll(i))

\* ------------------------------------------------- observing the tree
Idle == pc = "idle"

\* The Nodes reachable from root through left and right.
Reach(t) == LET seq == PreOrder(t, t.root, Cells) IN {seq[i] : i \in 1..Len(seq)}

\* Number of BLACK nodes on every path from x down to an absent child, or -1
\* when two such paths differ.
RECURSIVE BlackHeight(_, _, _)
BlackHeight(t, x, fuel) ==
    IF x = NIL \/ fuel = 0 THEN 0
    ELSE LET l == BlackHeight(t, t.left[x], fuel - 1)
             r == BlackHeight(t, t.right[x], fuel - 1)
         IN  IF l < 0 \/ r < 0 \/ l # r THEN -1
             ELSE l + (IF t.color[x] = BLACK THEN 1 ELSE 0)

\* Some RED node has a RED child.
RedRed(t) ==
    \E x \in Reach(t) :
        /\ t.color[x] = RED
        /\ \/ t.left[x] # NIL /\ t.color[t.left[x]] = RED
           \/ t.right[x] # NIL /\ t.color[t.right[x]] = RED

\* Keys in in-order.
RECURSIVE InOrder(_, _, _)
InOrder(t, x, fuel) ==
    IF x = NIL \/ fuel = 0 THEN <<>>
    ELSE InOrder(t, t.left[x], fuel - 1) \o <<t.key[x]>> \o InOrder(t, t.right[x], fuel - 1)

NonDecreasing(seq) == \A i \in 1..(Len(seq) - 1) : seq[i] <= seq[i + 1]

\* Keys of the subtree rooted at x.
SubKeys(t, x) == LET seq == InOrder(t, x, Cells) IN {seq[i] : i \in 1..Len(seq)}

\* Nodes on the longest path from x down to a leaf.
RECURSIVE Height(_, _, _)
Height(t, x, fuel) ==
    IF x = NIL \/ fuel = 0 THEN 0
    ELSE LET l == Height(t, t.left[x], fuel - 1)
             r == Height(t, t.right[x], fuel - 1)
         IN  1 + (IF l > r THEN l ELSE r)

\* How often each key is stored in the tree.
KeyCount(t, k) == Cardinality({x \in Reach(t) : t.key[x] = k})
KeyBag(t) == [k \in Keys \cup TripKeys |-> KeyCount(t, k)]

\* ---------------------------------------------------------------- claims

\* C1: after every insert or delete returns, every path from the root to an
\* absent child passes through the same number of BLACK nodes (rule 5).
C1_UniformBlackHeight == Idle => BlackHeight(tree, tree.root, Cells) >= 0

\* C2: after every insert or delete returns, no RED node has a RED child
\* (rule 4).
C2_NoRedRed == Idle => ~RedRed(tree)

\* C3: after every insert or delete returns, the root of a non-empty tree is
\* BLACK (rule 2), also after a delete that removes the root or replaces it
\* by its only child.
C3_RootBlack == Idle /\ tree.root # NIL => tree.color[tree.root] = BLACK

\* A delete unlinked a root that had one child, and has returned.
C3_Witness ==
    /\ Idle
    /\ call.op = "delete"
    /\ spliced.id # NIL
    /\ spliced.parent = NIL
    /\ spliced.child # NIL
    /\ pre.color[spliced.child] = RED
    /\ tree.root # NIL

\* C4: after any sequence of insert and delete calls (duplicates included)
\* the in-order key sequence is non-decreasing: no key of a node's left
\* subtree is greater than the node's key, none of its right subtree smaller.
C4_Ordered ==
    Idle =>
        /\ NonDecreasing(InOrder(tree, tree.root, Cells))
        /\ \A x \in Reach(tree) :
            /\ \A k \in SubKeys(tree, tree.left[x]) : k <= tree.key[x]
            /\ \A k \in SubKeys(tree, tree.right[x]) : k >= tree.key[x]

\* A delete with a two-children target in a tree with a duplicate key has
\* rotated and returned, leaving some node with an equal key on its left.
C4_Witness ==
    /\ Idle
    /\ call.op = "delete"
    /\ spliced.id # spliced.target
    /\ lastCase \in {"1", "3", "4"}
    /\ \E x \in Reach(tree) : tree.left[x] # NIL /\ tree.key[tree.left[x]] = tree.key[x]

\* C5: delete(key) returns true exactly when some node holds key before the
\* call, and then the keys stored afterwards are those before minus exactly
\* one occurrence of key.
C5_DeleteRemovesOne ==
    Idle /\ call.op = "delete" =>
        /\ (ret = "true") <=> (KeyCount(pre, call.key) > 0)
        /\ ret = "true" =>
            KeyBag(tree) = [KeyBag(pre) EXCEPT ![call.key] = @ - 1]

\* A delete of a key held twice, whose target has two children, has returned.
C5_Witness ==
    /\ Idle
    /\ call.op = "delete"
    /\ ret = "true"
    /\ spliced.id # spliced.target
    /\ KeyCount(pre, call.key) = 2
    /\ lastCase # "none"

\* C6: delete(key) for a key no node holds returns false and leaves root,
\* shape, keys, colours and parent links as they were.
C6_DeleteAbsent ==
    Idle /\ call.op = "delete" /\ KeyCount(pre, call.key) = 0 =>
        ret = "false" /\ tree = pre

\* A delete of an absent key on a tree of at least three nodes has returned.
C6_Witness ==
    /\ Idle
    /\ call.op = "delete"
    /\ KeyCount(pre, call.key) = 0
    /\ Cardinality(pre.nodes) >= 3

\* C7: insert(key) always succeeds: afterwards the keys stored are those
\* before plus exactly one occurrence of key, also when key was present.
C7_InsertAddsOne ==
    Idle /\ call.op = "insert" =>
        KeyBag(tree) = [KeyBag(pre) EXCEPT ![call.key] = @ + 1]

\* An insert of a key already held has rotated and returned.
C7_Witness ==
    /\ Idle
    /\ call.op = "insert"
    /\ KeyCount(pre, call.key) > 0
    /\ lastCase \in {"BC", "C"}
    /\ KeyCount(tree, call.key) = KeyCount(pre, call.key) + 1

\* C8: round trip: after inserting distinct keys in any order, deleting keys
\* of that set in any order returns true each time, and once all of them are
\* deleted the tree is empty.
C8_RoundTrip ==
    Idle =>
        /\ call.op = "delete" => ret = "true"
        /\ trip.del = trip.ins => tree.root = NIL
        /\ tree.root = NIL => trip.del = trip.ins

\* All RoundTripKeys keys were inserted and all were deleted again.
C8_Witness ==
    /\ Idle
    /\ trip.ins = TripKeys
    /\ trip.del = TripKeys
    /\ tree.root = NIL

\* C9: after every insert or delete, a tree of n nodes has height h with
\* 2^h <= (n+1)^2.
C9_HeightBound ==
    Idle =>
        LET h == Height(tree, tree.root, Cells)
            n == Cardinality(Reach(tree))
        IN  2^h <= (n + 1) * (n + 1)

\* C10: every insert and every delete terminates: the loops of fixInsert and
\* fixDelete exit after finitely many iterations.
C10_Terminates == (pc # "idle") ~> (pc = "idle")

\* fixDelete's red-sibling branch has put current back to node after the loop
\* had climbed above it.
C10_Witness ==
    /\ pc = "fixDelete"
    /\ lastCase = "1"
    /\ lastAt # node
    /\ current = node

\* C11: no insert or delete dereferences an absent node: the grandparent
\* fixInsert reads, the parent fixDelete reads, the sibling child it recolours
\* and the pivot child of every rotation are present, and so is the root that
\* fixInsert blackens.
C11_NoAbsentDeref ==
    /\ pc = "fixInsert" => tree.root # NIL /\ node \in tree.nodes
    /\ pc = "fixInsert" /\ FixInsertCond(tree, node) => NIL \notin FixInsertRefs(tree, node)
    /\ pc = "fixDelete" /\ current # tree.root =>
            current \in tree.nodes /\ NIL \notin FixDeleteRefs(tree, current)

\* fixInsert is about to run an iteration in a tree that a delete had left
\* with a RED node under a RED parent.
C11_Witness ==
    /\ pc = "fixInsert"
    /\ FixInsertCond(tree, node)
    /\ RedRed(pre)
    /\ tree.color[tree.parent[tree.parent[node]]] = RED

\* The usage example has inserted all its values and deleted none / has also
\* deleted its three values.
DemoInserted == Idle /\ demo.ins = Len(DemoValues) /\ demo.del = <<>>
DemoDeleted == Idle /\ demo.ins = Len(DemoValues) /\ demo.del = DemoDeletes

\* C12: inserting 10, 5, 15, 3, 7, 12, 17, 1, 4, 6, 8 in that order into an
\* empty tree yields a tree whose root holds 10 and is BLACK and that
\* satisfies rules 2, 4, 5 and BST ordering.
C12_DemoInsert ==
    DemoInserted =>
        /\ tree.key[tree.root] = 10
        /\ tree.color[tree.root] = BLACK
        /\ ~RedRed(tree)
        /\ BlackHeight(tree, tree.root, Cells) >= 0
        /\ InOrder(tree, tree.root, Cells) = <<1, 3, 4, 5, 6, 7, 8, 10, 12, 15, 17>>

\* The example has inserted its eleven values (the eighth, 1, through a
\* recolouring) and the tree holds eleven nodes.
C12_Witness ==
    /\ DemoInserted
    /\ Cardinality(Reach(tree)) = Len(DemoValues)
    /\ call = [op |-> "insert", key |-> 8]

\* C13: from that tree delete(3), delete(1), delete(5) each return true, and
\* afterwards the tree holds exactly 4, 6, 7, 8, 10, 12, 15, 17 in ascending
\* in-order, and rules 2, 4 and 5 hold.
C13_DemoDelete ==
    /\ Idle /\ demo.ins = Len(DemoValues) /\ demo.del # <<>>
         /\ demo.del = SubSeq(DemoDeletes, 1, Len(demo.del)) => ret = "true"
    /\ DemoDeleted =>
        /\ InOrder(tree, tree.root, Cells) = <<4, 6, 7, 8, 10, 12, 15, 17>>
        /\ tree.color[tree.root] = BLACK
        /\ ~RedRed(tree)
        /\ BlackHeight(tree, tree.root, Cells) >= 0

\* The tree after unlinking victim (and copying its key into target), with
\* nothing else changed.
SpliceOnly(t, target, victim) ==
    Renumber(Release(DeleteNode(CopyKey(t, target, victim), victim), victim))

\* C14: when the node delete splices out is RED no repair is performed: apart
\* from the unlinking (and the key copy) no colour changes and no rotation
\* happens, so the remaining tree has the shape and colours it had.
C14_RedSpliceNoRepair ==
    Idle /\ call.op = "delete" /\ spliced.id # NIL /\ spliced.color = RED =>
        tree = SpliceOnly(pre, spliced.target, spliced.id)

\* The sibling of the position the splice vacated: the other child of the
\* spliced node's former parent.
VacatedSibling ==
    IF pre.left[spliced.parent] = spliced.id
    THEN tree.right[spliced.parent] ELSE tree.left[spliced.parent]

\* delete has spliced out a BLACK node with no child and called fixDelete,
\* which has not run an iteration yet.
BlackLeafSpliced ==
    /\ pc = "fixDelete"
    /\ lastCase = "none"
    /\ spliced.color = BLACK
    /\ spliced.child = NIL

\* C15: when delete splices out a BLACK node whose replacement is absent,
\* the repair starts at the vacated position: the first sibling fixDelete
\* examines is the other child of the spliced node's former parent.
C15_RepairStartsAtVacated ==
    BlackLeafSpliced =>
        /\ current # tree.root
        /\ Sibling(tree, current) = VacatedSibling

\* C16: fixDelete never applies a recolouring or rotation case with a RED
\* node as the node under repair.
C16_NoCaseOnRedNode ==
    pc = "fixDelete" /\ current # tree.root /\ Sibling(tree, current) # NIL =>
        tree.color[current] = BLACK

\* C17: after fixDelete applies Case 1 the next iteration examines the node
\* that was under repair in that iteration; Case 1 never moves the position
\* under repair, also when the loop had climbed above the node fixDelete was
\* called with.
C17_Case1KeepsPosition ==
    pc = "fixDelete" /\ lastCase = "1" => current = lastAt

\* C18: whenever fixDelete applies Case 3, the very next case it applies is
\* Case 4 at the same node with the new sibling, after which the loop ends;
\* no other case and no upward move happens in between.
C18_Case3ThenCase4 ==
    pc = "fixDelete" /\ lastCase = "3" =>
        /\ current = lastAt
        /\ current # NIL /\ current # tree.root
        /\ LET r == FixDeleteBody(tree, current, node)
           IN  /\ r.case = "4"
               /\ r.brk
               /\ r.t = DelCase4(tree, tree.parent[current], Sibling(tree, current),
                                 current = tree.left[tree.parent[current]])

C18_Witness ==
    /\ pc = "fixDelete"
    /\ lastCase = "3"
    /\ current = lastAt
    /\ Sibling(tree, current) # NIL
    /\ tree.color[Sibling(tree, current)] = BLACK

\* An iteration of fixDelete's loop body is about to run with a sibling.
SiblingPresent ==
    /\ pc = "fixDelete"
    /\ current # NIL
    /\ current # tree.root
    /\ Sibling(tree, current) # NIL

\* C19: an iteration with a present sibling applies exactly one of Case 1,
\* 2, 3 or 4: the cases cover every combination of sibling colour and
\* sibling-children colours, so no iteration falls through the loop body
\* without changing either the tree or the position under repair.
C19_OneCaseApplies ==
    SiblingPresent =>
        LET r == FixDeleteBody(tree, current, node)
        IN  /\ r.case \in {"1", "2", "3", "4"}
            /\ r.t # tree \/ r.current # current

C19_Witness ==
    /\ SiblingPresent
    /\ LET sib == Sibling(tree, current)
       IN  /\ tree.color[sib] = BLACK
           /\ ColorOrBlack(tree, tree.left[sib]) = RED
           /\ ColorOrBlack(tree, tree.right[sib]) = RED

\* C20: when the sibling of the node under repair is absent, a fixDelete
\* iteration changes no colour and no link anywhere in the tree; it only
\* moves the position under repair to the parent.
C20_NoSiblingMovesUp ==
    [][FixDeleteLoop /\ Sibling(tree, current) = NIL =>
            /\ tree' = tree
            /\ current' = tree.parent[current]
            /\ pc' = "fixDelete"]_vars

C20_Witness ==
    /\ pc = "fixDelete"
    /\ lastCase = "nosib"
    /\ current = tree.parent[lastAt]
    /\ current # tree.root

\* C21: after any sequence of insert calls only (duplicates allowed) from
\* the empty tree, the root is BLACK, no RED node has a RED child, and every
\* path from the root to an absent child has the same number of BLACK nodes.
C21_InsertOnlyRules ==
    Idle /\ tree.root # NIL =>
        /\ tree.color[tree.root] = BLACK
        /\ ~RedRed(tree)
        /\ BlackHeight(tree, tree.root, Cells) >= 0

C21_Witness ==
    /\ Idle
    /\ call.op = "insert"
    /\ Cardinality(tree.nodes) >= 5
    /\ KeyCount(tree, call.key) >= 3
    /\ lastCase = "C"

\* The links of t form a tree over its nodes: the root has no parent, every
\* child's parent field names the node it hangs under, and no node is
\* reached twice.
WellFormed(t) ==
    /\ t.root # NIL => t.root \in t.nodes /\ t.parent[t.root] = NIL
    /\ t.root = NIL => t.nodes = {}
    /\ Len(PreOrder(t, t.root, Cells)) = Cardinality(Reach(t))
    /\ Reach(t) = t.nodes
    /\ \A x \in Reach(t) :
        /\ t.left[x] # NIL => t.parent[t.left[x]] = x
        /\ t.right[x] # NIL => t.parent[t.right[x]] = x
        /\ t.left[x] # NIL => t.left[x] # t.right[x]

\* C22: after every insert or delete the links form a well-formed tree: the
\* root has no parent, every child's parent field equals the node it is a
\* child of, no node is the child of two nodes or both children of one, and
\* the spliced-out node is no longer reachable from the root.
C22_WellFormed ==
    /\ Idle => WellFormed(tree)
    /\ Idle /\ ret = "true" =>
            Cardinality(Reach(tree)) = Cardinality(Reach(pre)) - 1
    /\ pc \in {"fixDelete", "fixDeleteDone"} => spliced.id \notin Reach(tree)

C22_Witness ==
    /\ Idle
    /\ call.op = "delete"
    /\ ret = "true"
    /\ spliced.id # spliced.target
    /\ spliced.child # NIL
    /\ lastCase \in {"1", "3", "4"}

\* C23: after every insert or delete the root reference is absent exactly
\* when the tree holds no keys: it becomes absent only by deleting the last
\* remaining node, and a delete of the root that has a child makes that child
\* (or, after repair, its rotated ancestor) the root.
C23_RootAbsentIffEmpty ==
    /\ Idle => (tree.root = NIL <=> tree.nodes = {})
    /\ Idle /\ tree.root = NIL /\ pre.root # NIL =>
            call.op = "delete" /\ ret = "true" /\ Cardinality(pre.nodes) = 1
    /\ pc = "fixDelete" /\ lastCase = "none" /\ spliced.id = pre.root =>
            tree.root = spliced.child /\ tree.parent[tree.root] = NIL
    /\ Idle /\ ret = "true" /\ spliced.id = pre.root /\ spliced.child # NIL =>
            tree.root # NIL

C23_Witness ==
    /\ Idle
    /\ call.op = "delete"
    /\ ret = "true"
    /\ spliced.id = pre.root
    /\ spliced.child # NIL
    /\ tree.root # NIL

\* The node reached from x by left links only.
RECURSIVE LeftMost(_, _, _)
LeftMost(t, x, fuel) ==
    IF fuel = 0 \/ t.left[x] = NIL THEN x ELSE LeftMost(t, t.left[x], fuel - 1)

\* delete has just spliced out the successor of a two-children target: no
\* repair step has run and the nodes are numbered as in pre.
SuccessorSpliced ==
    /\ pc = "fixDelete"
    /\ lastCase = "none"
    /\ spliced.id # spliced.target

\* What C24 says of the target apart from its right link.
TargetStays ==
    LET tg == spliced.target
    IN  /\ pre.left[tg] # NIL /\ pre.right[tg] # NIL
        /\ spliced.id = LeftMost(pre, pre.right[tg], Cells)
        /\ tg \in tree.nodes
        /\ tree.key[tg] = pre.key[spliced.id]
        /\ tree.color[tg] = pre.color[tg]
        /\ tree.parent[tg] = pre.parent[tg]
        /\ tree.left[tg] = pre.left[tg]
        /\ tree.root = pre.root

\* The node passed to deleteNode has at most one child.
VictimHasAtMostOneChild ==
    spliced.id # NIL => pre.left[spliced.id] = NIL \/ pre.right[spliced.id] = NIL

\* C24 as stated: the node passed to deleteNode has at most one child; for a
\* two-children target it is the leftmost node of the target's right
\* subtree, and the target keeps its position, colour and links and only
\* takes over the successor's key.
C24_TargetKeepsLinks ==
    /\ VictimHasAtMostOneChild
    /\ SuccessorSpliced =>
        /\ TargetStays
        /\ tree.right[spliced.target] = pre.right[spliced.target]

\* C24 amended: as stated, except that the target's right link becomes the
\* successor's right child when the successor was the target's right child.
C24_TargetKeepsPlace ==
    /\ VictimHasAtMostOneChild
    /\ SuccessorSpliced =>
        /\ TargetStays
        /\ tree.right[spliced.target] =
              IF pre.right[spliced.target] = spliced.id
              THEN spliced.child ELSE pre.right[spliced.target]

\* The successor was the target's right child and had a right child itself.
C24_Witness ==
    /\ SuccessorSpliced
    /\ pre.right[spliced.target] = spliced.id
    /\ spliced.child # NIL
    /\ tree.right[spliced.target] = spliced.child

\* The links of a tree, colours and keys left aside.
Links(t) == [root |-> t.root, left |-> t.left, right |-> t.right, parent |-> t.parent]

\* The trees one rotation away from t.
OneRotation(t) ==
    {RotateLeft(t, x) : x \in {y \in t.nodes : t.right[y] # NIL}}
        \cup {RotateRight(t, x) : x \in {y \in t.nodes : t.left[y] # NIL}}

\* The links of t2 are those of t after at most two rotations.
AtMostTwoRotations(t, t2) ==
    \/ Links(t2) = Links(t)
    \/ \E a \in OneRotation(t) :
        \/ Links(a) = Links(t2)
        \/ \E b \in OneRotation(a) : Links(b) = Links(t2)

\* C25: once fixInsert applies Case C the loop exits without another
\* iteration; hence a single insert performs at most two rotations, and
\* Case A (uncle RED) performs none.
C25_CaseCEndsLoop ==
    [][FixInsertLoop =>
            /\ lastCase \notin {"C", "BC"}
            /\ lastCase' = "A" => Links(tree') = Links(tree)
            /\ lastCase' \in {"C", "BC"} =>
                /\ ~FixInsertCond(tree', node')
                /\ AtMostTwoRotations(tree, tree')]_vars

\* Case A has recoloured, the loop has moved up two levels and then applied
\* the triangle and line rotations.
C25_Witness ==
    /\ pc = "fixInsert"
    /\ lastCase = "BC"
    /\ call.op = "insert"
    /\ lastAt # NewId(pre)
    /\ Links(tree) # Links(InsertAttach(pre, call.key))

\* The tree the running call started from satisfied rules 2, 4 and 5.
PreSatisfiesRules ==
    /\ pre.root # NIL
    /\ pre.color[pre.root] = BLACK
    /\ ~RedRed(pre)
    /\ BlackHeight(pre, pre.root, Cells) >= 0

\* C26: during an insert into a tree that satisfied rules 2, 4 and 5, at
\* every entry to fixInsert's loop the only RED node that may have a RED
\* parent is the loop's current node, and rule 5 holds for the whole tree.
C26_FixInsertLoopInvariant ==
    pc = "fixInsert" /\ PreSatisfiesRules =>
        /\ \A x \in Reach(tree) :
              tree.color[x] = RED /\ tree.parent[x] # NIL
                  /\ tree.color[tree.parent[x]] = RED => x = node
        /\ BlackHeight(tree, tree.root, Cells) >= 0

\* Case A has run on a tree that satisfied the rules and has left the new
\* current node RED under a RED parent.
C26_Witness ==
    /\ pc = "fixInsert"
    /\ PreSatisfiesRules
    /\ lastCase = "A"
    /\ FixInsertCond(tree, node)

\* Every step of the way from the root down to x went left exactly when
\* v was smaller than the key of the node it left.
RECURSIVE DescentFollows(_, _, _, _)
DescentFollows(t, x, v, fuel) ==
    LET p == t.parent[x]
    IN  IF p = NIL \/ fuel = 0 THEN x = t.root
        ELSE /\ (x = t.left[p]) <=> (v < t.key[p])
             /\ (x = t.right[p]) <=> ~(v < t.key[p])
             /\ DescentFollows(t, p, v, fuel - 1)

\* insert has attached its node and fixInsert has not run an iteration yet.
Attached == pc = "fixInsert" /\ lastCase = "none"

\* C27: insert into an empty tree creates a single BLACK root; insert into
\* a non-empty tree attaches the new node as a RED leaf (no children, parent
\* set to the last visited node) where a descent arrives that goes left when
\* key < visited key and right otherwise, so an equal key goes right.
C27_InsertAttaches ==
    /\ Idle /\ call.op = "insert" /\ pre.root = NIL =>
        /\ tree.nodes = {tree.root}
        /\ tree.root # NIL
        /\ tree.key[tree.root] = call.key
        /\ tree.color[tree.root] = BLACK
        /\ tree.left[tree.root] = NIL /\ tree.right[tree.root] = NIL
        /\ tree.parent[tree.root] = NIL
    /\ Attached =>
        LET p == tree.parent[node]
        IN  /\ pre.root # NIL
            /\ node \notin pre.nodes
            /\ tree.nodes = pre.nodes \cup {node}
            /\ tree.key[node] = call.key
            /\ tree.color[node] = RED
            /\ tree.left[node] = NIL /\ tree.right[node] = NIL
            /\ p \in pre.nodes
            /\ IF call.key < pre.key[p]
               THEN pre.left[p] = NIL /\ tree.left[p] = node
                    /\ tree.right[p] = pre.right[p]
               ELSE pre.right[p] = NIL /\ tree.right[p] = node
                    /\ tree.left[p] = pre.left[p]
            /\ DescentFollows(tree, node, call.key, Cells)
            /\ tree.root = pre.root
            /\ \A x \in pre.nodes :
                /\ tree.key[x] = pre.key[x]
                /\ tree.color[x] = pre.color[x]
                /\ tree.parent[x] = pre.parent[x]
                /\ x # p => tree.left[x] = pre.left[x] /\ tree.right[x] = pre.right[x]

\* The descent has passed a node holding the inserted key and gone on below
\* its right child.
C27_Witness ==
    /\ Attached
    /\ \E a \in pre.nodes :
        /\ pre.key[a] = call.key
        /\ a # tree.parent[node]
        /\ tree.parent[node] \in {PreOrder(tree, tree.right[a], Cells)[i] :
                                    i \in 1..Len(PreOrder(tree, tree.right[a], Cells))}

\* C28: every promise returned by load(key) or loadMany(keys) eventually
\* resolves, in every interleaving of load, loadMany, clear and batch
\* execution in which the batch function itself resolves, including when
\* clear() runs after the key was queued and before the batch executes.
C28_PromisesResolve ==
    \A i \in 1..MaxLoads :
        (Len(loader.promises) >= i) ~>
            (Len(loader.promises) >= i /\ loader.promises[i].done)

\* C29: between two clear() calls each distinct key is passed to the batch
\* function at most once, in every interleaving of load and loadMany calls
\* with batch execution.
C29_FetchedOnce ==
    \A k \in LoaderKeys : loader.fetched[k] <= 1

\* r is t with nothing changed but links of x, of the promoted child y, the
\* parent link of the transferred subtree's root inner, and the slot that
\* pointed to x.
RotationFrame(t, r, x, y, inner) ==
    LET p == t.parent[x]
    IN  /\ r.nodes = t.nodes
        /\ r.color = t.color
        /\ r.key = t.key
        /\ InOrder(r, r.root, Cells) = InOrder(t, t.root, Cells)
        /\ r.root = IF p = NIL THEN y ELSE t.root
        /\ \A n \in t.nodes \ {x, y} :
            /\ n # inner => r.parent[n] = t.parent[n]
            /\ n # p \/ t.left[p] # x => r.left[n] = t.left[n]
            /\ n # p \/ t.right[p] # x => r.right[n] = t.right[n]
        /\ p # NIL => r.parent[p] = t.parent[p]
        /\ inner # NIL => r.left[inner] = t.left[inner] /\ r.right[inner] = t.right[inner]

\* C30: rotateLeft(x) with x.right present and rotateRight(x) with x.left
\* present change no colour and no key, preserve the in-order key sequence
\* of the whole tree, and modify only the links of x, the promoted child,
\* the transferred inner subtree's root, and the slot that pointed to x.
C30_RotationFrame ==
    /\ \A x \in Reach(tree) : tree.right[x] # NIL =>
          RotationFrame(tree, RotateLeft(tree, x), x, tree.right[x],
                        tree.left[tree.right[x]])
    /\ \A x \in Reach(tree) : tree.left[x] # NIL =>
          RotationFrame(tree, RotateRight(tree, x), x, tree.left[x],
                        tree.right[tree.left[x]])

\* Case 4 of fixDelete has rotated a parent that was not the root and has
\* handed it the old sibling's inner subtree.
C30_Witness ==
    /\ pc = "fixDeleteDone"
    /\ lastCase = "4"
    /\ lastAt \in tree.nodes
    /\ tree.parent[lastAt] # NIL
    /\ Sibling(tree, lastAt) # NIL
    /\ tree.parent[tree.parent[lastAt]] # NIL
    /\ tree.parent[tree.parent[tree.parent[lastAt]]] # NIL

====
